---- MODULE Spec2Model ----
(***************************************************************************)
(* Model of fieldmask/src/maskable.rs: the mask parser (deserialize_mask)   *)
(* and the mask appliers (AbsoluteMaskable / OptionalMaskable) for the      *)
(* scalar terminals u32 and String and for Option<T>.                       *)
(*                                                                          *)
(* A type is a record [base, depth]: Option nested `depth` times around     *)
(* `base`.  base "u32" and "String" are the two maskable! instances; base   *)
(* "T" is an arbitrary implementor of OptionalMaskable (the trait bound of  *)
(* impl AbsoluteMaskable for Option<T>), whose applier is the environment.  *)
(* An Option value is a sequence: None is <<>>, Some(v) is <<v>>.           *)
(* `last` records the arguments and the outcome of the latest call: the     *)
(* destination before it (pre), the source, the mask passed in (for         *)
(* deserialize_mask: the mask before the call), the path segments, the      *)
(* returned verdict (ok) and error, and the outcome env that T's applier    *)
(* produced.  `once` is the destination between a call and its repetition.  *)
(***************************************************************************)
EXTENDS Integers, Sequences, FiniteSets, TLC

VARIABLES ty, dst, mask, last

vars == <<ty, dst, mask, last>>

\* ---- bounds ----
MaxDepth == 2
MaxU32 == 2
MaxSegs == 2
MaxT == 1
MaxTMask == 1

\* ---- the types and their values ----
Bases == {"u32", "String", "T"}

Types == { t \in [base : Bases, depth : 0..MaxDepth] : t.base = "T" => t.depth >= 1 }

Inner(t) == [t EXCEPT !.depth = @ - 1]

U32Vals == 0..MaxU32

StringVals == {"", "x", "y"}

TVals == 0..MaxT

BaseVals(b) == IF b = "u32" THEN U32Vals ELSE IF b = "String" THEN StringVals ELSE TVals

RECURSIVE Vals(_)
Vals(t) == IF t.depth = 0 THEN BaseVals(t.base)
           ELSE {<<>>} \cup { <<v>> : v \in Vals(Inner(t)) }

\* Default::default(): 0 for u32, "" for String, None for Option<T>
Default(t) == IF t.depth > 0 THEN <<>>
              ELSE IF t.base = "String" THEN "" ELSE 0

\* type Mask = bool for the terminals; type Mask = T::Mask for Option<T>
MaskVals(t) == IF t.base = "T" THEN 0..MaxTMask ELSE BOOLEAN

MaskDefault(t) == IF t.base = "T" THEN 0 ELSE FALSE

\* ---- the applier of the arbitrary implementor T ----
TOutcomes == [val : TVals, ok : BOOLEAN]

TTriples == TVals \X TVals \X (0..MaxTMask)

TImpl(out) == [x \in TTriples |-> out]

\* ---- field paths ----
Segs == {"a", "b"}

Paths == UNION { [1..n -> Segs] : n \in 0..MaxSegs }

\* ---- Maskable::deserialize_mask ----
NoErr == [type_str |-> "", field |-> "", depth |-> 0]

\* variant: the error path also rewrites the flag
ScalarDeserializeMask_ResetOnError(T, m, segs) ==
    IF Len(segs) = 0
    THEN [mask |-> TRUE, ok |-> TRUE, err |-> NoErr]
    ELSE [mask |-> FALSE, ok |-> FALSE,
          err |-> [type_str |-> T, field |-> segs[1], depth |-> 0]]

\* variant: the error names the last segment instead of the first
ScalarDeserializeMask_LastSegment(T, m, segs) ==
    IF Len(segs) = 0
    THEN [mask |-> TRUE, ok |-> TRUE, err |-> NoErr]
    ELSE [mask |-> m, ok |-> FALSE,
          err |-> [type_str |-> T, field |-> segs[Len(segs)], depth |-> 0]]

ScalarDeserializeMask(T, m, segs) ==
    IF Len(segs) = 0
    THEN [mask |-> TRUE, ok |-> TRUE, err |-> NoErr]
    ELSE [mask |-> m, ok |-> FALSE,
          err |-> [type_str |-> T, field |-> segs[1], depth |-> 0]]

RECURSIVE DeserializeMask(_, _, _)
DeserializeMask(t, m, segs) ==
    IF t.depth = 0 THEN ScalarDeserializeMask(t.base, m, segs)
    ELSE DeserializeMask(Inner(t), m, segs)

\* ---- AbsoluteMaskable / OptionalMaskable ::apply_mask ----
\* variant: the test of the flag is inverted
ScalarApplyMask_Inverted(self, other, m) == IF ~m THEN other ELSE self

ScalarApplyMask(self, other, m) == IF m THEN other ELSE self

\* variant: no early return on the default mask
OptionApplyMask_NoShortCircuit(self, src, m, maskDefault, tDefault, inner) ==
    IF self # <<>>
    THEN IF src # <<>>
         THEN LET r == inner[<<self[1], src[1], m>>]
              IN  IF ~r.ok THEN <<>> ELSE <<r.val>>
         ELSE <<>>
    ELSE IF src # <<>>
         THEN LET r == inner[<<tDefault, src[1], m>>]
              IN  IF r.ok THEN <<r.val>> ELSE <<>>
         ELSE self

\* variant: Some/Some merges and ignores the verdict
OptionApplyMask_IgnoreVerdict(self, src, m, maskDefault, tDefault, inner) ==
    IF m = maskDefault THEN self
    ELSE IF self # <<>>
         THEN IF src # <<>>
              THEN <<inner[<<self[1], src[1], m>>].val>>
              ELSE <<>>
         ELSE IF src # <<>>
              THEN LET r == inner[<<tDefault, src[1], m>>]
                   IN  IF r.ok THEN <<r.val>> ELSE <<>>
              ELSE self

\* variant: None/Some always stores Some(new)
OptionApplyMask_AlwaysPresent(self, src, m, maskDefault, tDefault, inner) ==
    IF m = maskDefault THEN self
    ELSE IF self # <<>>
         THEN IF src # <<>>
              THEN LET r == inner[<<self[1], src[1], m>>]
                   IN  IF ~r.ok THEN <<>> ELSE <<r.val>>
              ELSE <<>>
         ELSE IF src # <<>>
              THEN <<inner[<<tDefault, src[1], m>>].val>>
              ELSE self

\* variant: Some/None leaves the destination alone
OptionApplyMask_KeepOnAbsentSource(self, src, m, maskDefault, tDefault, inner) ==
    IF m = maskDefault THEN self
    ELSE IF self # <<>>
         THEN IF src # <<>>
              THEN LET r == inner[<<self[1], src[1], m>>]
                   IN  IF ~r.ok THEN <<>> ELSE <<r.val>>
              ELSE self
         ELSE IF src # <<>>
              THEN LET r == inner[<<tDefault, src[1], m>>]
                   IN  IF r.ok THEN <<r.val>> ELSE <<>>
              ELSE self

\* variant: Some/Some tests the verdict without the negation
OptionApplyMask_DroppedNegation(self, src, m, maskDefault, tDefault, inner) ==
    IF m = maskDefault THEN self
    ELSE IF self # <<>>
         THEN IF src # <<>>
              THEN LET r == inner[<<self[1], src[1], m>>]
                   IN  IF r.ok THEN <<>> ELSE <<r.val>>
              ELSE <<>>
         ELSE IF src # <<>>
              THEN LET r == inner[<<tDefault, src[1], m>>]
                   IN  IF r.ok THEN <<r.val>> ELSE <<>>
              ELSE self

\* impl AbsoluteMaskable for Option<T>; inner is T's OptionalMaskable::apply_mask
\* as a function of <<s, o, mask>>, tDefault is T::default()
OptionApplyMask(self, src, m, maskDefault, tDefault, inner) ==
    IF m = maskDefault THEN self
    ELSE IF self # <<>>
         THEN IF src # <<>>
              THEN LET r == inner[<<self[1], src[1], m>>]
                   IN  IF ~r.ok THEN <<>> ELSE <<r.val>>
              ELSE <<>>
         ELSE IF src # <<>>
              THEN LET r == inner[<<tDefault, src[1], m>>]
                   IN  IF r.ok THEN <<r.val>> ELSE <<>>
              ELSE self

RECURSIVE AbsApplyMask(_, _, _, _, _)
RECURSIVE OptApplyMask(_, _, _, _, _)

\* variant: the derived applier reports false when the merge leaves the default
BlanketApplyMask_EmptyCollapses(t, self, src, m, tImpl) ==
    LET v == AbsApplyMask(t, self, src, m, tImpl)
    IN  [val |-> v, ok |-> v # Default(t)]

\* variant: the derived applier reports false for the default mask
BlanketApplyMask_FalseOnDefaultMask(t, self, src, m, tImpl) ==
    [val |-> AbsApplyMask(t, self, src, m, tImpl), ok |-> m # MaskDefault(t)]

\* impl<T: AbsoluteMaskable> OptionalMaskable for T
BlanketApplyMask(t, self, src, m, tImpl) ==
    [val |-> AbsApplyMask(t, self, src, m, tImpl), ok |-> TRUE]

\* <t as OptionalMaskable>::apply_mask
OptApplyMask(t, self, src, m, tImpl) ==
    IF t.base = "T" /\ t.depth = 0 THEN tImpl[<<self, src, m>>]
    ELSE BlanketApplyMask(t, self, src, m, tImpl)

\* <t as AbsoluteMaskable>::apply_mask
AbsApplyMask(t, self, src, m, tImpl) ==
    IF t.depth = 0 THEN ScalarApplyMask(self, src, m)
    ELSE OptionApplyMask(self, src, m, MaskDefault(t), Default(Inner(t)),
            [x \in Vals(Inner(t)) \X Vals(Inner(t)) \X MaskVals(t) |->
                OptApplyMask(Inner(t), x[1], x[2], x[3], tImpl)])

\* ---- the state machine ----
NoOut == [val |-> 0, ok |-> TRUE]

Init ==
    /\ ty \in Types
    /\ dst \in Vals(ty)
    /\ mask = MaskDefault(ty)
    /\ last = [op |-> "init", pre |-> dst, src |-> dst, mask |-> mask,
               once |-> dst, segs |-> <<>>, ok |-> TRUE, err |-> NoErr,
               env |-> NoOut]

\* T::deserialize_mask(&mut mask, segs) for the u32/String based types
Deserialize ==
    /\ ty.base # "T"
    /\ \E segs \in Paths :
         LET r == DeserializeMask(ty, mask, segs)
         IN  /\ mask' = r.mask
             /\ last' = [op |-> "deserialize", pre |-> dst, src |-> dst,
                         mask |-> mask, once |-> dst, segs |-> segs,
                         ok |-> r.ok, err |-> r.err, env |-> NoOut]
    /\ UNCHANGED <<ty, dst>>

\* AbsoluteMaskable::apply_mask(&mut dst, src, m)
Apply ==
    /\ \E src \in Vals(ty), m \in MaskVals(ty), out \in TOutcomes :
         /\ (ty.base # "T" => out = NoOut)
         /\ dst' = AbsApplyMask(ty, dst, src, m, TImpl(out))
         /\ last' = [op |-> "apply", pre |-> dst, src |-> src, mask |-> m,
                     once |-> dst, segs |-> <<>>, ok |-> TRUE, err |-> NoErr,
                     env |-> out]
    /\ UNCHANGED <<ty, mask>>

\* the same (src, mask) applied a second time, right after Apply
ReApply ==
    /\ last.op = "apply"
    /\ dst' = AbsApplyMask(ty, dst, last.src, last.mask, TImpl(last.env))
    /\ last' = [last EXCEPT !.op = "reapply", !.once = dst]
    /\ UNCHANGED <<ty, mask>>

\* OptionalMaskable::apply_mask(&mut dst, src, m) -> bool
ApplyOptional ==
    /\ \E src \in Vals(ty), m \in MaskVals(ty), out \in TOutcomes :
         /\ (ty.base # "T" => out = NoOut)
         /\ LET r == OptApplyMask(ty, dst, src, m, TImpl(out))
            IN  /\ dst' = r.val
                /\ last' = [op |-> "apply_optional", pre |-> dst, src |-> src,
                            mask |-> m, once |-> dst, segs |-> <<>>,
                            ok |-> r.ok, err |-> NoErr, env |-> out]
    /\ UNCHANGED <<ty, mask>>

Next == Deserialize \/ Apply \/ ReApply \/ ApplyOptional

Spec == Init /\ [][Next]_vars

\* ---- the properties ----
NonDefaultApply == last.op = "apply" /\ ty.depth >= 1 /\ last.mask # MaskDefault(ty)

\* C1: Option<T>::apply_mask with the default (nothing selected) mask leaves
\* the destination as it was, whatever the presence of destination and source.
C1_NoOpMask ==
    (last.op = "apply" /\ ty.depth >= 1 /\ last.mask = MaskDefault(ty))
        => dst = last.pre

C1_Witness ==
    /\ last.op = "apply" /\ ty.depth >= 1 /\ last.mask = MaskDefault(ty)
    /\ last.pre # <<>> /\ last.src # <<>> /\ last.pre # last.src
    /\ dst = last.pre

\* C2: present destination Some(s), present source Some(o), non-default mask:
\* s is merged with o by T's optional-aware applier; a false verdict leaves the
\* destination absent, a true verdict leaves it present with the merge result.
C2_PresentPresent ==
    (NonDefaultApply /\ last.pre # <<>> /\ last.src # <<>>)
        => LET r == OptApplyMask(Inner(ty), last.pre[1], last.src[1], last.mask,
                                 TImpl(last.env))
           IN  /\ r.ok => dst = <<r.val>>
               /\ ~r.ok => dst = <<>>

C2_Witness ==
    /\ NonDefaultApply /\ ty.base = "T" /\ ty.depth = 1
    /\ last.pre # <<>> /\ last.src # <<>>
    /\ ~last.env.ok
    /\ dst = <<>>

\* C3: absent destination, present source Some(o), non-default mask: a fresh
\* T::default() is merged with o; the destination ends present with the merged
\* value exactly when the applier reports true, and stays absent otherwise.
C3_AbsentPresent ==
    (NonDefaultApply /\ last.pre = <<>> /\ last.src # <<>>)
        => LET r == OptApplyMask(Inner(ty), Default(Inner(ty)), last.src[1],
                                 last.mask, TImpl(last.env))
           IN  /\ (dst # <<>>) <=> r.ok
               /\ r.ok => dst = <<r.val>>

C3_Witness ==
    /\ NonDefaultApply /\ ty.base = "T" /\ ty.depth = 1
    /\ last.pre = <<>> /\ last.src # <<>>
    /\ ~last.env.ok
    /\ dst = <<>>

\* C4: present destination, absent source, non-default mask: the destination
\* is absent after the call.
C4_AbsentSourceClears ==
    (NonDefaultApply /\ last.pre # <<>> /\ last.src = <<>>) => dst = <<>>

C4_Witness ==
    /\ NonDefaultApply /\ last.pre # <<>> /\ last.src = <<>>
    /\ dst = <<>>

\* some optional layer of v (a value of type t) is absent
RECURSIVE AbsentInside(_, _)
AbsentInside(t, v) ==
    /\ t.depth >= 1
    /\ (v = <<>> \/ AbsentInside(Inner(t), v[1]))

\* C5 (as claimed): in a stack of optional layers over u32/String, once a merge
\* under a non-default mask leaves an inner optional layer absent, every layer
\* wrapping it ends absent too.
C5_CollapsePropagates ==
    (NonDefaultApply /\ ty.base # "T" /\ ty.depth >= 2)
        => (AbsentInside(ty, dst) => dst = <<>>)

\* C5 (amended): an Option layer used as an inner layer always reports true, so
\* the layer wrapping it ends absent exactly when its own source is absent, and
\* otherwise ends present holding the inner layer's merge result, absent or not.
C5_OuterFollowsSource ==
    (NonDefaultApply /\ ty.depth >= 2)
        => /\ (dst = <<>>) <=> (last.src = <<>>)
           /\ last.src # <<>> =>
                dst = << AbsApplyMask(Inner(ty),
                            IF last.pre = <<>> THEN Default(Inner(ty))
                                               ELSE last.pre[1],
                            last.src[1], last.mask, TImpl(last.env)) >>

C5_Witness ==
    /\ NonDefaultApply /\ ty.base # "T" /\ ty.depth = 2
    /\ last.pre # <<>> /\ last.pre[1] # <<>>
    /\ last.src = << <<>> >>
    /\ dst = << <<>> >>

\* C6: over u32/String and Option wrappers of them, applying the same
\* (source, mask) a second time leaves the destination as the first call left it.
C6_Idempotent ==
    (last.op = "reapply" /\ ty.base # "T") => dst = last.once

C6_Witness ==
    /\ last.op = "reapply" /\ ty.base # "T" /\ ty.depth = 2
    /\ last.mask # MaskDefault(ty)
    /\ last.once # last.pre
    /\ dst = last.once

\* C7: for u32 and String, apply_mask with mask true ends with dst = src and
\* with mask false leaves dst as before.
C7_ScalarReplace ==
    (last.op = "apply" /\ ty.depth = 0)
        => /\ last.mask => dst = last.src
           /\ ~last.mask => dst = last.pre

C7_Witness ==
    /\ last.op = "apply" /\ ty.depth = 0
    /\ last.mask /\ last.pre # last.src
    /\ dst = last.src

\* C8: a deserialize_mask call never clears a set flag, and a failing call
\* leaves the mask exactly as it was.
C8_MaskMonotone ==
    last.op = "deserialize"
        => /\ last.mask => mask
           /\ ~last.ok => mask = last.mask

C8_Witness ==
    /\ last.op = "deserialize" /\ ty.depth >= 1
    /\ last.mask /\ ~last.ok
    /\ mask

\* C9: deserialize_mask on u32/String, directly or through Option layers,
\* succeeds and sets the flag iff no segment is left; otherwise it fails naming
\* the terminal's type, the first remaining segment and depth 0.
C9_TerminalParsing ==
    last.op = "deserialize"
        => /\ last.ok <=> (last.segs = <<>>)
           /\ last.ok => mask = TRUE
           /\ ~last.ok =>
                /\ last.err = [type_str |-> ty.base, field |-> last.segs[1],
                               depth |-> 0]
                /\ mask = last.mask

C9_Witness ==
    /\ last.op = "deserialize" /\ ty.depth >= 1
    /\ Len(last.segs) = 2 /\ last.segs[1] # last.segs[2]
    /\ ~last.ok /\ last.err.field = last.segs[1]

\* C10: the derived OptionalMaskable::apply_mask leaves the destination as the
\* unconditional apply_mask would and returns true for every input.
C10_DerivedOptional ==
    last.op = "apply_optional"
        => /\ dst = AbsApplyMask(ty, last.pre, last.src, last.mask,
                                 TImpl(last.env))
           /\ last.ok = TRUE

C10_Witness ==
    /\ last.op = "apply_optional" /\ ty.depth >= 1
    /\ last.mask = MaskDefault(ty)
    /\ last.pre # last.src
    /\ last.ok /\ dst = last.pre

====
